---- MODULE Spec2Model ----
(***************************************************************************)
(* Model of the SSH session manager of skill-ssh:                          *)
(*   - CommandPatternLoader  (src/unnamed/part_001, lib/command-pattern-   *)
(*     loader.js): the pattern registry;                                   *)
(*   - InteractiveSSHSession (src/lib/interactive-session.js): command     *)
(*     analysis, the safety gate, and idle/ceiling completion detection.   *)
(*                                                                         *)
(* The specifications share the variables and the actions:                 *)
(*   SpecClassify  the registry (load, addPattern) with analyzeCommand     *)
(*                 applied to every command of a small universe;           *)
(*   SpecClassifyAny  the same with a document whose entries leave out     *)
(*                 the severity;                                           *)
(*   SpecObservers the caller's listeners of the 'output' event;           *)
(*   SpecGate      a session and its safety gate: commands, bypassSafety   *)
(*                 and the policy toggle vary;                             *)
(*   SpecBypass    SpecGate for a dangerous command, with fair timers;     *)
(*   SpecLife      the life cycle of the connection: connect, its          *)
(*                 timeout, termination of the transport, close;           *)
(*   SpecDetector  the idle/ceiling completion detector, with chunks       *)
(*                 arriving at a fine granularity.                         *)
(*                                                                         *)
(* Time is in milliseconds.  A regular expression is modelled by its       *)
(* source text and flags; what it matches is tabulated over the command    *)
(* universe (Lang), so case sensitivity is decided by the flags the code   *)
(* compiled it with.                                                       *)
(***************************************************************************)
EXTENDS Integers, Sequences, FiniteSets, TLC

VARIABLES
  \* ---- CommandPatternLoader (part_001:15-22)
  configFile,          \* content of the file at this.configPath
  dangerousPatterns,   \* this.dangerousPatterns
  suspiciousPatterns,  \* this.suspiciousPatterns
  whitelistedPatterns, \* this.whitelistedPatterns
  settings,            \* this.settings
  added,               \* number of addPattern calls made so far
  lastAnalysis,        \* outcome of the latest analyzeCommand call of the caller
  \* ---- InteractiveSSHSession (interactive-session.js:11-22)
  connected,           \* this.connected
  commandHistory,      \* this.commandHistory
  outputBuffer,        \* this.outputBuffer
  blockDangerousCommands, \* this.blockDangerousCommands
  sshProcess,          \* this.sshProcess: "null", "running", "exited", "failed"
  stdin,               \* everything written to sshProcess.stdin, in order
  conn,                \* the connect() call: promise state, timer, listeners
  closing,             \* the close() call: promise state, grace timer
  calls,               \* one closure per executeCommand call, in call order
  now,                 \* Date.now()
  observers            \* the caller's listeners, of the 'output' event and
                       \* of the events of executeCommand, in registration
                       \* order

regVars  == <<configFile, dangerousPatterns, suspiciousPatterns,
              whitelistedPatterns, settings, added>>
sessVars == <<connected, commandHistory, outputBuffer, blockDangerousCommands,
              sshProcess, stdin, conn, closing, calls, now, observers>>
vars     == <<regVars, lastAnalysis, sessVars>>

----------------------------------------------------------------------------
(* Commands and regular expressions                                        *)

\* The command universe: a dangerous command and its upper-case variant, a
\* command under /home that a whitelist may cover, a suspicious one, a safe one.
Commands ==
  {"rm -rf /", "RM -RF /", "rm -rf /home/alice/project",
   "sudo rm -rf /tmp/test", "ls -la"}

\* String.prototype.toLowerCase over the universe
Lower(c) == IF c = "RM -RF /" THEN "rm -rf /" ELSE c

\* The commands of the universe a regular expression source matches when it
\* is compiled without flags (RegExp.prototype.test, case-sensitive).
Lang(source) ==
  CASE source = "^rm\\s+-rf\\s+\\/$"            -> {"rm -rf /"}
    [] source = "^rm\\s+-rf\\s+/"               -> {"rm -rf /", "rm -rf /home/alice/project"}
    [] source = "^rm\\s+-rf\\s+/home/[^/]+"     -> {"rm -rf /home/alice/project"}
    [] source = "sudo\\s+rm"                    -> {"sudo rm -rf /tmp/test"}
    [] source = "rm\\s+-rf"                     -> {"rm -rf /", "rm -rf /home/alice/project",
                                                    "sudo rm -rf /tmp/test"}
    [] OTHER                                    -> {}

\* new RegExp(source, flags) throws a SyntaxError for an unbalanced group
Compiles(source) == source # "("

\* regex.test(command): with the i flag the match ignores case.  Every source
\* of the model is written in lower case, so /src/i matches c iff the source
\* matches the lower-case variant of c.
RegexTest(regex, command) ==
  IF regex.flags = "i"
    THEN Lower(command) \in Lang(regex.source)
    ELSE command \in Lang(regex.source)

\* severity.toUpperCase()
ToUpperCase(s) ==
  CASE s = "critical" -> "CRITICAL"
    [] s = "high"     -> "HIGH"
    [] s = "medium"   -> "MEDIUM"
    [] s = "low"      -> "LOW"
    [] OTHER          -> s

----------------------------------------------------------------------------
(* CommandPatternLoader                                                    *)

\* JavaScript truthiness of a settings value ("absent" is undefined)
Truthy(v) == v = "true"

\* this.settings = {} (part_001:21)
EmptySettings ==
  [block_dangerous_by_default |-> "absent", warn_on_suspicious |-> "absent",
   log_blocked_commands |-> "absent", case_sensitive |-> "absent",
   allow_whitelist_override |-> "absent"]

\* the settings loadDefaults installs (part_001:170-176)
DefaultSettings ==
  [block_dangerous_by_default |-> "true", warn_on_suspicious |-> "true",
   log_blocked_commands |-> "true", case_sensitive |-> "false",
   allow_whitelist_override |-> "true"]

Pat(n, src, fl, d, sev) ==
  [name |-> n, regex |-> [source |-> src, flags |-> fl], description |-> d, severity |-> sev]

\* the regex literals of loadDefaults carry no flags (part_001:97-140)
DefaultDangerous ==
  << Pat("delete_root_filesystem", "^rm\\s+-rf\\s+\\/$", "", "Delete root filesystem", "critical"),
     Pat("disk_write_operations", "^dd\\s+if=.*of=\\/dev\\/sd", "", "Direct disk write operations", "critical"),
     Pat("format_filesystem", "^mkfs", "", "Format filesystem commands", "critical"),
     Pat("fork_bomb", "^:(){ :|:& };:", "", "Fork bomb", "critical"),
     Pat("chmod_777_root", "^chmod\\s+-R\\s+777\\s+\\/", "", "Recursive chmod 777 on root", "critical"),
     Pat("curl_pipe_to_shell", "^curl.*\\|\\s*sh", "", "Download and execute via curl", "high"),
     Pat("wget_pipe_to_shell", "^wget.*\\|\\s*sh", "", "Download and execute via wget", "high") >>

\* part_001:142-167
DefaultSuspicious ==
  << Pat("sudo_with_rm", "sudo\\s+rm", "", "Using sudo with rm", "medium"),
     Pat("chmod_777", "chmod\\s+777", "", "World-writable permissions", "medium"),
     Pat("redirect_to_dev_null", ">\\s*\\/dev\\/null\\s+2>&1", "", "Hiding command output", "low"),
     Pat("base64_decode", "base64.*decode", "", "Base64 decoding", "low") >>

\* A registry value: the four fields load, loadDefaults and addPattern assign.
Reg(d, s, w, st) == [dangerous |-> d, suspicious |-> s, whitelisted |-> w, settings |-> st]

RegNow == Reg(dangerousPatterns, suspiciousPatterns, whitelistedPatterns, settings)

\* loadDefaults (part_001:96-179)
loadDefaults == Reg(DefaultDangerous, DefaultSuspicious, << >>, DefaultSettings)

\* compilePatterns (part_001:69-91): disabled entries are skipped, an entry
\* whose expression does not compile is skipped, the flags come from the
\* settings in force when the call is made.
RECURSIVE compilePatterns(_, _)
compilePatterns(st, allPatterns) ==
  IF allPatterns = << >> THEN << >>
  ELSE LET pattern == Head(allPatterns)
           rest    == compilePatterns(st, Tail(allPatterns))
           flags   == IF Truthy(st.case_sensitive) THEN "" ELSE "i"
       IN IF ~pattern.enabled \/ ~Compiles(pattern.pattern) THEN rest
          ELSE << Pat(pattern.name, pattern.pattern, flags,
                      pattern.description, pattern.severity) >> \o rest

\* ---- configuration documents --------------------------------------------

Entry(n, src, d, sev, en) ==
  [name |-> n, pattern |-> src, description |-> d, severity |-> sev, enabled |-> en]

EntRmAny    == Entry("rm_rf_any", "^rm\\s+-rf\\s+/", "Recursive delete from root", "critical", TRUE)
EntRmRoot   == Entry("delete_root_filesystem", "^rm\\s+-rf\\s+\\/$", "Delete root filesystem", "critical", TRUE)
EntRmRf     == Entry("rm_rf", "rm\\s+-rf", "Recursive force delete", "high", TRUE)
EntSudoRm   == Entry("sudo_with_rm", "sudo\\s+rm", "Using sudo with rm", "medium", TRUE)
EntHome     == Entry("home_cleanup", "^rm\\s+-rf\\s+/home/[^/]+", "Cleanup under /home", "absent", TRUE)
EntDisabled == Entry("sudo_disabled", "sudo\\s+rm", "Disabled rule", "high", FALSE)
EntBroken   == Entry("broken", "(", "Does not compile", "low", TRUE)

\* A parsed configuration document, in the format of docs/sessions.md:
\* three sections, the optional custom overlay, the optional settings block.
\* has names the sections the document contains; JSON.parse accepts a
\* document that leaves one out.
Sections == {"dangerous", "suspicious", "whitelisted"}

Doc(d, s, w, cd, st) ==
  [kind |-> "doc", has |-> Sections, dangerous |-> d, suspicious |-> s, whitelisted |-> w,
   customDangerous |-> cd, hasSettings |-> st # EmptySettings, settings |-> st]

NoFile      == [kind |-> "missing"]
CorruptFile == [kind |-> "corrupt"]
\* the file exists and readFileSync fails
UnreadableFile == [kind |-> "unreadable"]

\* whitelist over a broader dangerous rule (scenario 4 of the specification)
DocWhitelist ==
  Doc(<<EntRmAny>>, <<EntRmRf, EntSudoRm>>, <<EntHome>>, <<EntDisabled, EntBroken>>,
      DefaultSettings)

\* the same rules with the whitelist override switched off, case-sensitive
DocStrict ==
  Doc(<<EntRmAny, EntRmRoot>>, <<EntSudoRm>>, <<EntHome>>, << >>,
      [DefaultSettings EXCEPT !.allow_whitelist_override = "false",
                              !.case_sensitive = "true"])

\* a document without a settings block
DocNoSettings ==
  Doc(<<EntRmRoot>>, <<EntRmRf>>, <<EntHome>>, << >>, EmptySettings)

ConfigFiles == {NoFile, CorruptFile, UnreadableFile, DocWhitelist, DocStrict, DocNoSettings}

\* load whose catch block leaves the registry as it is
loadNoFallback(f, reg) ==
  IF f.kind = "missing" THEN loadDefaults
  ELSE IF f.kind \in {"corrupt", "unreadable"} THEN reg
  ELSE Reg(compilePatterns(reg.settings, f.dangerous \o f.customDangerous),
           compilePatterns(reg.settings, f.suspicious),
           compilePatterns(reg.settings, f.whitelisted),
           IF f.hasSettings THEN f.settings ELSE EmptySettings)

\* a catch block that logs the error and keeps what load had assigned
catchBlockKeeps(partial) == partial

\* the catch block of load (part_001:60-63), entered with the registry as
\* the statements before the exception left it: loadDefaults assigns the
\* three collections and the settings anew
catchBlock(partial) == loadDefaults

\* load (part_001:27-64) applied to the file content f with the loader in
\* state reg: the three collections are compiled and assigned one after the
\* other under the settings in force before the call, then the settings are
\* replaced.  Reading .patterns of a section the document does not contain
\* raises a TypeError, which the catch block receives.
load(f, reg) ==
  IF f.kind = "missing" THEN loadDefaults
  ELSE IF f.kind \in {"corrupt", "unreadable"} THEN catchBlock(reg)
  ELSE IF "dangerous" \notin f.has THEN catchBlock(reg)
  ELSE LET r1 == [reg EXCEPT !.dangerous =
                    compilePatterns(reg.settings, f.dangerous \o f.customDangerous)]
       IN IF "suspicious" \notin f.has THEN catchBlock(r1)
          ELSE LET r2 == [r1 EXCEPT !.suspicious = compilePatterns(reg.settings, f.suspicious)]
               IN IF "whitelisted" \notin f.has THEN catchBlock(r2)
                  ELSE [r2 EXCEPT !.whitelisted = compilePatterns(reg.settings, f.whitelisted),
                                  !.settings = IF f.hasSettings THEN f.settings
                                               ELSE EmptySettings]

\* ---- queries --------------------------------------------------------------

\* Array.prototype.filter over a compiled collection, order kept
RECURSIVE Matching(_, _)
Matching(patterns, command) ==
  IF patterns = << >> THEN << >>
  ELSE (IF RegexTest(Head(patterns).regex, command) THEN <<Head(patterns)>> ELSE << >>)
       \o Matching(Tail(patterns), command)

\* isWhitelisted with the setting read the wrong way round
isWhitelistedInverted(reg, command) ==
  IF Truthy(reg.settings.allow_whitelist_override) THEN FALSE
  ELSE Matching(reg.whitelisted, command) # << >>

\* isWhitelisted (part_001:184-196)
isWhitelisted(reg, command) ==
  IF ~Truthy(reg.settings.allow_whitelist_override) THEN FALSE
  ELSE Matching(reg.whitelisted, command) # << >>

\* isDangerous reporting a match only when several patterns match
isDangerousOffByOne(reg, command) ==
  IF isWhitelisted(reg, command) THEN [dangerous |-> FALSE, matches |-> << >>]
  ELSE LET matches == Matching(reg.dangerous, command)
       IN [dangerous |-> Len(matches) > 1, matches |-> matches]

\* isDangerous (part_001:201-218)
isDangerous(reg, command) ==
  IF isWhitelisted(reg, command) THEN [dangerous |-> FALSE, matches |-> << >>]
  ELSE LET matches == Matching(reg.dangerous, command)
       IN [dangerous |-> Len(matches) > 0, matches |-> matches]

\* isSuspicious that stops at the first match
isSuspiciousFirstOnly(reg, command) ==
  LET matches == Matching(reg.suspicious, command)
  IN [suspicious |-> Len(matches) > 0,
      matches |-> IF matches = << >> THEN << >> ELSE <<Head(matches)>>]

\* isSuspicious (part_001:223-235)
isSuspicious(reg, command) ==
  LET matches == Matching(reg.suspicious, command)
  IN [suspicious |-> Len(matches) > 0, matches |-> matches]

\* addPattern (part_001:240-271): [ok, reg]
PatternTypes == {"dangerous", "suspicious", "whitelisted"}

\* addPattern whose switch falls through to the dangerous case for an
\* unknown type before it reports the failure
addPatternFallsThrough(reg, type, patternConfig) ==
  LET flags == IF Truthy(reg.settings.case_sensitive) THEN "" ELSE "i"
      compiledPattern ==
        Pat(patternConfig.name, patternConfig.pattern, flags, patternConfig.description,
            IF patternConfig.severity = "absent" THEN "medium" ELSE patternConfig.severity)
  IN IF ~Compiles(patternConfig.pattern) THEN [ok |-> FALSE, reg |-> reg]
     ELSE CASE type = "suspicious" ->
                 [ok |-> TRUE, reg |-> [reg EXCEPT !.suspicious = Append(@, compiledPattern)]]
            [] type = "whitelisted" ->
                 [ok |-> TRUE, reg |-> [reg EXCEPT !.whitelisted = Append(@, compiledPattern)]]
            [] OTHER ->
                 [ok |-> type = "dangerous",
                  reg |-> [reg EXCEPT !.dangerous = Append(@, compiledPattern)]]

addPattern(reg, type, patternConfig) ==
  LET flags == IF Truthy(reg.settings.case_sensitive) THEN "" ELSE "i"
      compiledPattern ==
        Pat(patternConfig.name, patternConfig.pattern, flags, patternConfig.description,
            IF patternConfig.severity = "absent" THEN "medium" ELSE patternConfig.severity)
  IN IF ~Compiles(patternConfig.pattern) THEN [ok |-> FALSE, reg |-> reg]
     ELSE CASE type = "dangerous" ->
                 [ok |-> TRUE, reg |-> [reg EXCEPT !.dangerous = Append(@, compiledPattern)]]
            [] type = "suspicious" ->
                 [ok |-> TRUE, reg |-> [reg EXCEPT !.suspicious = Append(@, compiledPattern)]]
            [] type = "whitelisted" ->
                 [ok |-> TRUE, reg |-> [reg EXCEPT !.whitelisted = Append(@, compiledPattern)]]
            [] OTHER -> [ok |-> FALSE, reg |-> reg]

----------------------------------------------------------------------------
(* InteractiveSSHSession: command analysis                                 *)

NullReason == "null"
BlockedReason == "Potentially destructive command detected"

RECURSIVE WarningsOf(_)
WarningsOf(matches) ==
  IF matches = << >> THEN << >>
  ELSE << <<ToUpperCase(Head(matches).severity), Head(matches).description>> >>
       \o WarningsOf(Tail(matches))

RECURSIVE NamesOf(_)
NamesOf(matches) ==
  IF matches = << >> THEN << >> ELSE <<Head(matches).name>> \o NamesOf(Tail(matches))

\* pattern.severity.toUpperCase() raises a TypeError when severity is undefined
SeverityMissing(matches) ==
  \E i \in 1..Len(matches) : matches[i].severity = "absent"

\* getPatternMatches (interactive-session.js:160-166)
getPatternMatches(reg, command) ==
  [dangerous |-> isDangerous(reg, command),
   suspicious |-> isSuspicious(reg, command),
   whitelisted |-> isWhitelisted(reg, command)]

\* analyzeCommand that starts from safe: false
analyzeCommandUnsafeDefault(reg, command) ==
  LET matches == getPatternMatches(reg, command)
      isDang  == matches.dangerous.dangerous /\ ~matches.whitelisted
      isSusp  == matches.suspicious.suspicious
      dm      == IF isDang THEN matches.dangerous.matches ELSE << >>
      sm      == IF isSusp THEN matches.suspicious.matches ELSE << >>
  IN [command       |-> command,
      threw         |-> SeverityMissing(dm) \/ SeverityMissing(sm),
      safe          |-> FALSE,
      dangerous     |-> isDang,
      suspicious    |-> isSusp,
      whitelisted   |-> matches.whitelisted,
      warnings      |-> WarningsOf(dm) \o WarningsOf(sm),
      blockedReason |-> IF isDang THEN BlockedReason ELSE NullReason,
      matchedPatterns |-> [dangerous |-> NamesOf(dm), suspicious |-> NamesOf(sm)]]

\* analyzeCommand (interactive-session.js:171-219).  threw is TRUE when the
\* call raises instead of returning; the other fields are then meaningless.
analyzeCommand(reg, command) ==
  LET matches == getPatternMatches(reg, command)
      isDang  == matches.dangerous.dangerous /\ ~matches.whitelisted
      isSusp  == matches.suspicious.suspicious
      dm      == IF isDang THEN matches.dangerous.matches ELSE << >>
      sm      == IF isSusp THEN matches.suspicious.matches ELSE << >>
  IN [command       |-> command,
      threw         |-> SeverityMissing(dm) \/ SeverityMissing(sm),
      safe          |-> ~isDang,
      dangerous     |-> isDang,
      suspicious    |-> isSusp,
      whitelisted   |-> matches.whitelisted,
      warnings      |-> WarningsOf(dm) \o WarningsOf(sm),
      blockedReason |-> IF isDang THEN BlockedReason ELSE NullReason,
      matchedPatterns |-> [dangerous |-> NamesOf(dm), suspicious |-> NamesOf(sm)]]

\* no analyzeCommand call has been made against the current registry
NoAnalysis ==
  [command |-> "none", threw |-> FALSE, safe |-> TRUE, dangerous |-> FALSE,
   suspicious |-> FALSE, whitelisted |-> FALSE, warnings |-> << >>,
   blockedReason |-> NullReason,
   matchedPatterns |-> [dangerous |-> << >>, suspicious |-> << >>]]

----------------------------------------------------------------------------
(* Registry operations as actions (SpecClassify)                           *)

\* bound on the number of addPattern calls
MaxAdds == 2

\* the pattern configurations addPattern is called with
AddConfigs ==
  { [name |-> "custom_rm", pattern |-> "rm\\s+-rf", description |-> "Custom rule",
     severity |-> "absent", enabled |-> TRUE],
    [name |-> "home_ok", pattern |-> "^rm\\s+-rf\\s+/home/[^/]+",
     description |-> "Allow cleanup under /home", severity |-> "low", enabled |-> TRUE],
    [name |-> "broken", pattern |-> "(", description |-> "Does not compile",
     severity |-> "high", enabled |-> TRUE] }

SetReg(reg) ==
  /\ dangerousPatterns' = reg.dangerous
  /\ suspiciousPatterns' = reg.suspicious
  /\ whitelistedPatterns' = reg.whitelisted
  /\ settings' = reg.settings

\* the constructor (part_001:15-22)
RegInit ==
  /\ dangerousPatterns = << >>
  /\ suspiciousPatterns = << >>
  /\ whitelistedPatterns = << >>
  /\ settings = EmptySettings
  /\ added = 0

\* the session is not used in SpecClassify: it stays as constructed
SessInit ==
  /\ connected = FALSE
  /\ commandHistory = << >>
  /\ outputBuffer = << >>
  /\ blockDangerousCommands = TRUE
  /\ sshProcess = "null"
  /\ stdin = << >>
  /\ conn = [state |-> "none", timer |-> -1, checking |-> FALSE]
  /\ closing = [state |-> "none", timer |-> -1, listening |-> FALSE]
  /\ calls = << >>
  /\ now = 0
  /\ observers = << >>

\* somebody writes the configuration file
EditConfig(f) ==
  /\ configFile' = f
  /\ f # configFile
  /\ UNCHANGED <<dangerousPatterns, suspiciousPatterns, whitelistedPatterns,
                 settings, added, lastAnalysis, sessVars>>

\* patternLoader.load()
Load ==
  /\ SetReg(load(configFile, RegNow))
  /\ lastAnalysis' = NoAnalysis
  /\ UNCHANGED <<configFile, added, sessVars>>

\* patternLoader.addPattern(type, patternConfig)
AddPattern(type, patternConfig) ==
  /\ added < MaxAdds
  /\ added' = added + 1
  /\ SetReg(addPattern(RegNow, type, patternConfig).reg)
  /\ lastAnalysis' = NoAnalysis
  /\ UNCHANGED <<configFile, sessVars>>

\* session.analyzeCommand(command) against the live registry
Analyze(command) ==
  /\ lastAnalysis' = analyzeCommand(RegNow, command)
  /\ UNCHANGED <<regVars, sessVars>>

InitClassify ==
  /\ configFile \in ConfigFiles
  /\ RegInit
  /\ lastAnalysis = NoAnalysis
  /\ SessInit

NextClassify ==
  \/ \E f \in ConfigFiles : EditConfig(f)
  \/ Load
  \/ \E t \in PatternTypes \cup {"invalid"}, pc \in AddConfigs : AddPattern(t, pc)
  \/ \E c \in Commands : Analyze(c)

SpecClassify == InitClassify /\ [][NextClassify]_vars

\* ---- SpecSave: the registry written back to the configuration file -------

\* p => ({name, pattern: p.regex.source, description, severity, enabled: true})
\* of save (part_001:283-290, 294-301); the flags of the regex are not written
RECURSIVE toConfig(_)
toConfig(patterns) ==
  IF patterns = << >> THEN << >>
  ELSE LET p == Head(patterns)
       IN <<Entry(p.name, p.regex.source, p.description, p.severity, TRUE)>>
            \o toConfig(Tail(patterns))

\* the map of the whitelist section, which writes no severity
\* (part_001:305-311)
RECURSIVE toConfigWhitelisted(_)
toConfigWhitelisted(patterns) ==
  IF patterns = << >> THEN << >>
  ELSE LET p == Head(patterns)
       IN <<Entry(p.name, p.regex.source, p.description, "absent", TRUE)>>
            \o toConfigWhitelisted(Tail(patterns))

\* the document save writes (part_001:276-329): the custom overlay is empty
\* and the settings are the live ones
save(reg) ==
  Doc(toConfig(reg.dangerous), toConfig(reg.suspicious),
      toConfigWhitelisted(reg.whitelisted), << >>, reg.settings)

\* patternLoader.save()
Save ==
  /\ configFile' = save(RegNow)
  /\ UNCHANGED <<dangerousPatterns, suspiciousPatterns, whitelistedPatterns,
                 settings, added, lastAnalysis, sessVars>>

SaveFiles == {NoFile, DocWhitelist, DocNoSettings}

InitSave ==
  /\ configFile \in SaveFiles
  /\ RegInit
  /\ lastAnalysis = NoAnalysis
  /\ SessInit

NextSave ==
  \/ \E f \in SaveFiles : EditConfig(f)
  \/ Load
  \/ \E t \in PatternTypes, pc \in AddConfigs : AddPattern(t, pc)
  \/ Save

SpecSave == InitSave /\ [][NextSave]_vars

\* ---- SpecClassifyAny: documents whose entries leave out optional fields ---
\* JSON.parse accepts an entry without a severity and compilePatterns copies
\* the undefined value (part_001:82).

EntNoSeverity ==
  Entry("legacy_rm", "^rm\\s+-rf\\s+/", "Rule written without a severity", "absent", TRUE)

DocNoSeverity ==
  Doc(<<EntNoSeverity>>, <<EntSudoRm>>, << >>, << >>, DefaultSettings)

\* documents that leave out a section
DocNoSuspicious == [DocWhitelist EXCEPT !.has = {"dangerous", "whitelisted"}, !.suspicious = << >>]
DocNoWhitelist  == [DocWhitelist EXCEPT !.has = {"dangerous", "suspicious"}, !.whitelisted = << >>]

ConfigFilesAny == {NoFile, DocWhitelist, DocNoSeverity, DocNoSuspicious, DocNoWhitelist}

\* the pattern configurations of the command-line front end, which sets
\* enabled from its --enabled option (manage-patterns.ts:205-211)
AddConfigsAny ==
  AddConfigs \cup
  { [name |-> "off_rule", pattern |-> "sudo\\s+rm", description |-> "Rule switched off",
     severity |-> "high", enabled |-> FALSE] }

InitClassifyAny ==
  /\ configFile \in ConfigFilesAny
  /\ RegInit
  /\ lastAnalysis = NoAnalysis
  /\ SessInit

NextClassifyAny ==
  \/ \E f \in ConfigFilesAny : EditConfig(f)
  \/ Load
  \/ \E t \in PatternTypes, pc \in AddConfigsAny : AddPattern(t, pc)
  \/ \E c \in Commands : Analyze(c)

SpecClassifyAny == InitClassifyAny /\ [][NextClassifyAny]_vars

----------------------------------------------------------------------------
(* InteractiveSSHSession: the session (Spec)                               *)

\* setTimeout(..., 500) of outputHandler (interactive-session.js:277-281)
IdleThreshold == 500
\* options.timeout || 30000 (interactive-session.js:314)
DefaultTimeout == 30000
\* the connection timeout of connect (interactive-session.js:91-93)
ConnectionTimeout == 10000
\* the grace period of close (interactive-session.js:350-353)
CloseGrace == 2000

\* bounds of the model
MaxCalls == 2
MaxChunks == 2
MaxDetectorCalls == 1
MaxBypassCalls == 1
MaxObservers == 2
MaxObserverCalls == 1
MaxDetectorChunks == 4
\* until this instant the environment may act every Step ms; afterwards it
\* acts at the instants at which a timer is due
MaxFineTime == 600
Step == IdleThreshold \div 5

NoTimer == -1

\* the inputs of executeCommand
SessionCommands == {"rm -rf /", "sudo rm -rf /tmp/test", "ls -la"}
Timeouts == {0, 1000}      \* 0: options.timeout not given
SessionFiles == {NoFile}

\* the ceiling with options.timeout ignored
CeilingIgnoresOption(timeout) == DefaultTimeout

\* options.timeout || 30000 (interactive-session.js:314)
Ceiling(timeout) == IF timeout = 0 THEN DefaultTimeout ELSE timeout

\* the closure of one executeCommand call
Call(command, bypassSafety, timeout, outcome, analysis) ==
  [command |-> command, bypassSafety |-> bypassSafety, timeout |-> timeout,
   outcome |-> outcome,           \* "notConnected", "threw", "blocked", "listenerThrew",
                                  \* "pending", "resolved"
   analysis |-> analysis,
   output |-> << >>,              \* let output = ''
   startTime |-> IF outcome = "pending" THEN now ELSE -1,  \* const startTime = Date.now()
   commandCompleted |-> FALSE,    \* let commandCompleted = false
   idleTimer |-> NoTimer,         \* let idleTimer = null
   maxTimeout |-> NoTimer,        \* const maxTimeout = setTimeout(...)
   listening |-> FALSE,           \* outputHandler is attached to 'output'
   written |-> FALSE,             \* sshProcess.stdin.write(command + '\n') was made
   executedEvents |-> 0,          \* 'executed' events emitted for this call
   resolves |-> 0,                \* resolve(result) calls made
   duration |-> -1,               \* result.duration
   completedBy |-> "none",        \* the timer that ran completeCommand
   lastChunkAt |-> -1,            \* instant of the latest chunk outputHandler saw
   armedAt |-> IF outcome = "pending" THEN Len(outputBuffer) ELSE -1,
                                  \* chunks delivered before the listener was attached
   doneAt |-> -1,                 \* chunks delivered before the listener was detached
   effects |-> << >>]             \* what the call did, in the order it did it

InFlight(c) == c.outcome = "pending"

\* all pending timers
Deadlines ==
  {calls[i].idleTimer : i \in 1..Len(calls)} \cup
  {calls[i].maxTimeout : i \in 1..Len(calls)} \cup
  {conn.timer, closing.timer}
Pending == Deadlines \ {NoTimer}

RECURSIVE SetMin(_)
SetMin(S) ==
  LET x == CHOOSE y \in S : TRUE
  IN IF S = {x} THEN x
     ELSE LET m == SetMin(S \ {x}) IN IF x < m THEN x ELSE m

\* connect (interactive-session.js:27-139), for a configuration with a key
\* (no password handler)
Connect ==
  /\ conn.state = "none"
  /\ sshProcess = "null"
  /\ sshProcess' = "running"
  /\ conn' = [state |-> "pending", timer |-> now + ConnectionTimeout, checking |-> TRUE]
  /\ UNCHANGED <<regVars, lastAnalysis, observers, connected, commandHistory, outputBuffer,
                 blockDangerousCommands, stdin, closing, calls, now>>

\* checkConnection / checkConnectionStderr found a login indicator
\* (interactive-session.js:109-134)
Connected ==
  /\ connected' = TRUE
  /\ conn' = [state |-> IF conn.state = "pending" THEN "resolved" ELSE conn.state,
              timer |-> NoTimer, checking |-> FALSE]

\* outputHandler that keeps a running idle timer instead of resetting it
outputHandlerNoReset(c, data) ==
  [c EXCEPT !.output = Append(@, data),
            !.idleTimer = IF @ = NoTimer THEN now + IdleThreshold ELSE @,
            !.lastChunkAt = now]

\* outputHandler that puts the new chunk in front of the accumulated output
outputHandlerPrepend(c, data) ==
  [c EXCEPT !.output = <<data>> \o @,
            !.idleTimer = now + IdleThreshold,
            !.lastChunkAt = now]

\* outputHandler of call c on a chunk (interactive-session.js:263-282)
outputHandler(c, data) ==
  [c EXCEPT !.output = Append(@, data),
            !.idleTimer = now + IdleThreshold,
            !.lastChunkAt = now]

\* ---- EventEmitter.emit('output', data) (interactive-session.js:64) --------
\* emit calls the listeners one after the other in registration order; an
\* exception raised by a listener leaves emit, so the listeners registered
\* after it are not called, and it leaves the 'data' handler of line 57, so
\* the 'data' listeners attached after that one (checkConnection, line 136)
\* are not called either.  The listeners of 'output' are the outputHandler of
\* each call in flight and the caller's observers; an observer registered
\* when Len(calls) = pos comes after the handlers of the calls 1..pos.

\* the first observer that throws, 0 when none does
FirstThrower ==
  LET T == {k \in 1..Len(observers) :
              observers[k].event = "output" /\ observers[k].throws}
  IN IF T = {} THEN 0 ELSE CHOOSE k \in T : \A j \in T : k <= j

\* emit reaches the outputHandler of call i
ReachesCall(i) == FirstThrower = 0 \/ observers[FirstThrower].pos >= i

\* emit reaches observer k
ReachesObserver(k) == FirstThrower = 0 \/ k <= FirstThrower

\* session.on('output', listener) by the caller (session-start.ts:62-66)
Subscribe(throws) ==
  /\ observers' = Append(observers,
       [event |-> "output", throws |-> throws, pos |-> Len(calls),
        since |-> Len(outputBuffer), received |-> << >>])
  /\ UNCHANGED <<regVars, lastAnalysis, connected, commandHistory, outputBuffer,
                 blockDangerousCommands, sshProcess, stdin, conn, closing, calls, now>>

\* session.on(event, listener) for an event of executeCommand, with a
\* listener that throws (session-start.ts:74-85 registers such listeners)
SubscribeThrowing(event) ==
  /\ observers' = Append(observers,
       [event |-> event, throws |-> TRUE, pos |-> Len(calls),
        since |-> Len(outputBuffer), received |-> << >>])
  /\ UNCHANGED <<regVars, lastAnalysis, connected, commandHistory, outputBuffer,
                 blockDangerousCommands, sshProcess, stdin, conn, closing, calls, now>>

\* this.emit(event, ...) throws: a listener of the event throws and emit
\* lets the exception through
EmitThrows(event) ==
  \E k \in 1..Len(observers) : observers[k].event = event /\ observers[k].throws

\* the stdout 'data' handlers (interactive-session.js:57-65, 109-121):
\* marker tells what the chunk contains: "prompt" ($, #, >), "login"
\* (Last login, Welcome) or "plain"
StdoutData(marker) ==
  /\ sshProcess = "running"
  /\ marker # "plain" => conn.checking
  /\ LET data == Len(outputBuffer) + 1 IN
       /\ outputBuffer' = Append(outputBuffer, [type |-> "stdout", data |-> data])
       /\ calls' = [i \in 1..Len(calls) |->
                      IF calls[i].listening /\ ReachesCall(i)
                        THEN outputHandler(calls[i], data) ELSE calls[i]]
       /\ observers' = [k \in 1..Len(observers) |->
                          IF observers[k].event = "output" /\ ReachesObserver(k)
                            THEN [observers[k] EXCEPT !.received = Append(@, data)]
                            ELSE observers[k]]
  /\ IF FirstThrower = 0 /\ conn.checking /\ marker \in {"prompt", "login"}
       THEN Connected
       ELSE UNCHANGED <<connected, conn>>
  /\ UNCHANGED <<regVars, lastAnalysis, commandHistory, blockDangerousCommands,
                 sshProcess, stdin, closing, now>>

\* the stderr 'data' handlers (interactive-session.js:68-77, 123-134)
StderrData(marker) ==
  /\ sshProcess = "running"
  /\ marker # "plain" => conn.checking
  /\ marker # "prompt"
  /\ outputBuffer' = Append(outputBuffer, [type |-> "stderr", data |-> Len(outputBuffer) + 1])
  /\ IF conn.checking /\ marker = "login"
       THEN Connected
       ELSE UNCHANGED <<connected, conn>>
  /\ UNCHANGED <<regVars, lastAnalysis, observers, commandHistory, blockDangerousCommands,
                 sshProcess, stdin, closing, calls, now>>

\* the connection timer fires (interactive-session.js:91-93)
ConnectTimerFires ==
  /\ conn.timer # NoTimer
  /\ now >= conn.timer
  /\ conn' = [conn EXCEPT !.timer = NoTimer,
                          !.state = IF @ = "pending" THEN "rejected" ELSE @]
  /\ UNCHANGED <<regVars, lastAnalysis, observers, connected, commandHistory, outputBuffer,
                 blockDangerousCommands, sshProcess, stdin, closing, calls, now>>

\* ssh could not be spawned: the process emits 'error' and never runs
\* (interactive-session.js:86-88)
ProcessError ==
  /\ sshProcess = "running"
  /\ conn.state = "pending"
  /\ outputBuffer = << >>
  /\ sshProcess' = "failed"
  /\ conn' = [conn EXCEPT !.state = "rejected"]
  /\ UNCHANGED <<regVars, lastAnalysis, observers, connected, commandHistory, outputBuffer,
                 blockDangerousCommands, stdin, closing, calls, now>>

\* termination of the transport that also drops the timers of the commands
\* in flight
ProcessCloseDropsTimers ==
  /\ sshProcess = "running"
  /\ sshProcess' = "exited"
  /\ connected' = FALSE
  /\ closing' = IF closing.listening
                  THEN [state |-> "resolved", timer |-> NoTimer, listening |-> TRUE]
                  ELSE closing
  /\ calls' = [i \in 1..Len(calls) |->
                 [calls[i] EXCEPT !.idleTimer = NoTimer, !.maxTimeout = NoTimer]]
  /\ UNCHANGED <<regVars, lastAnalysis, observers, commandHistory, outputBuffer,
                 blockDangerousCommands, stdin, conn, now>>

\* the process emits 'close' (interactive-session.js:80-83, 355-359)
ProcessClose ==
  /\ sshProcess = "running"
  /\ sshProcess' = "exited"
  /\ connected' = FALSE
  /\ closing' = IF closing.listening
                  THEN [state |-> "resolved", timer |-> NoTimer, listening |-> TRUE]
                  ELSE closing
  /\ UNCHANGED <<regVars, lastAnalysis, observers, commandHistory, outputBuffer,
                 blockDangerousCommands, stdin, conn, calls, now>>

\* the line terminator executeCommand appends (interactive-session.js:307)
Line(command) == <<command, "\n">>

\* Array.prototype.unshift in place of push
pushFront(arr, x) == <<x>> \o arr

\* Array.prototype.push (interactive-session.js:249)
push(arr, x) == Append(arr, x)

\* the record executeCommand logs (interactive-session.js:249-254)
HistoryRecord(command, analysis) ==
  [command |-> command, timestamp |-> now, analysis |-> analysis, executed |-> TRUE]

\* the error a refused executeCommand call throws: the constructor name, the
\* message and the own properties set on the object besides the message
\* (interactive-session.js:226, 240; 195 for the TypeError of analyzeCommand)
Thrown(c) ==
  CASE c.outcome = "notConnected" ->
         [name |-> "Error", message |-> <<"SSH session not connected">>, properties |-> {}]
    [] c.outcome = "blocked" ->
         [name |-> "Error", message |-> <<"Command blocked: ", c.analysis.blockedReason>>,
          properties |-> {}]
    [] c.outcome = "threw" ->
         [name |-> "TypeError", message |-> <<"Cannot read properties of undefined">>,
          properties |-> {}]
    [] c.outcome = "listenerThrew" ->
         [name |-> "ListenerError", message |-> <<"thrown by a listener">>,
          properties |-> {}]
    [] OTHER ->
         [name |-> "none", message |-> << >>, properties |-> {}]

\* the gate with the negation of bypassSafety lost
BlocksBypassInverted(analysis, bypassSafety) ==
  analysis.dangerous /\ blockDangerousCommands /\ bypassSafety

\* the gate without the bypassSafety option
BlocksIgnoringBypass(analysis, bypassSafety) ==
  analysis.dangerous /\ blockDangerousCommands

\* the safety gate (interactive-session.js:238)
Blocks(analysis, bypassSafety) ==
  analysis.dangerous /\ blockDangerousCommands /\ ~bypassSafety

\* the effects with the warning emitted after the command is written and on
\* the refused path too
effectsWarnLate(analysis, blocked) ==
  IF blocked
    THEN <<"emit blocked">> \o (IF analysis.suspicious THEN <<"emit warning">> ELSE << >>)
           \o <<"throw">>
    ELSE <<"history.push", "on output", "stdin.write">>
           \o (IF analysis.suspicious THEN <<"emit warning">> ELSE << >>)
           \o <<"setTimeout">>

\* the statements executeCommand runs once connected and analysed, in source
\* order (interactive-session.js:238-314): the refused path emits 'blocked'
\* and throws at line 240, before the 'warning' of line 245 is reached
effects(analysis, blocked) ==
  IF blocked
    THEN <<"emit blocked", "throw">>
    ELSE (IF analysis.suspicious THEN <<"emit warning">> ELSE << >>)
           \o <<"history.push", "on output", "stdin.write", "setTimeout">>

\* the precondition check left out
NotConnectedUnchecked == FALSE

\* the precondition check of executeCommand (interactive-session.js:225-227)
NotConnected == ~connected

\* executeCommand (interactive-session.js:224-316), up to the return of the
\* promise: the outcome of the call is recorded in its closure.
ExecuteCommand(command, bypassSafety, timeout) ==
  /\ LET analysis == analyzeCommand(RegNow, command) IN
     IF NotConnected THEN
       \* throw new Error('SSH session not connected')
       \* (the options are read after this check; the timeout is never read)
       /\ calls' = Append(calls, Call(command, bypassSafety, 0, "notConnected", NoAnalysis))
       /\ UNCHANGED <<commandHistory, stdin>>
     ELSE IF analysis.threw THEN
       /\ calls' = Append(calls, Call(command, bypassSafety, 0, "threw", NoAnalysis))
       /\ UNCHANGED <<commandHistory, stdin>>
     ELSE IF Blocks(analysis, bypassSafety) THEN
       \* emit('blocked'); throw new Error('Command blocked: ...'): when a
       \* listener of 'blocked' throws, line 240 is not reached and the call
       \* fails with the exception of the listener
       /\ calls' = Append(calls,
            IF EmitThrows("blocked")
              THEN [Call(command, bypassSafety, 0, "listenerThrew", analysis)
                      EXCEPT !.effects = <<"emit blocked">>]
              ELSE [Call(command, bypassSafety, 0, "blocked", analysis)
                      EXCEPT !.effects = effects(analysis, TRUE)])
       /\ UNCHANGED <<commandHistory, stdin>>
     ELSE IF analysis.suspicious /\ EmitThrows("warning") THEN
       \* emit('warning') throws (line 245): nothing after it is run
       /\ calls' = Append(calls,
            [Call(command, bypassSafety, 0, "listenerThrew", analysis)
               EXCEPT !.effects = <<"emit warning">>])
       /\ UNCHANGED <<commandHistory, stdin>>
     ELSE
       /\ commandHistory' = push(commandHistory, HistoryRecord(command, analysis))
       /\ stdin' = Append(stdin, Line(command))
       /\ calls' = Append(calls,
            [Call(command, bypassSafety, timeout, "pending", analysis)
               EXCEPT !.listening = TRUE,
                      !.written = TRUE,
                      !.maxTimeout = now + Ceiling(timeout),
                      !.effects = effects(analysis, FALSE)])
  /\ UNCHANGED <<regVars, lastAnalysis, observers, connected, outputBuffer,
                 blockDangerousCommands, sshProcess, conn, closing, now>>

\* Array.prototype.slice(start): a negative start counts from the end, and
\* -0 is 0, the start of the array
slice(arr, start) ==
  LET len == Len(arr)
      k   == IF start < 0
               THEN (IF len + start > 0 THEN len + start ELSE 0)
               ELSE (IF start < len THEN start ELSE len)
  IN SubSeq(arr, k + 1, len)

\* getHistory (interactive-session.js:331-333)
getHistory(limit) == slice(commandHistory, 0 - limit)

\* the limits getHistory is called with: 0, the lengths the history can have
\* and the default
Limits == 0..(MaxCalls + 1) \cup {50}

\* completeCommand that does not raise the commandCompleted flag
completeCommandNoFlag(c, by) ==
  IF c.commandCompleted THEN c
  ELSE [c EXCEPT !.idleTimer = NoTimer,
                 !.listening = FALSE,
                 !.duration = now - c.startTime,
                 !.executedEvents = @ + 1,
                 !.resolves = @ + 1,
                 !.outcome = "resolved",
                 !.completedBy = by,
                 !.doneAt = Len(outputBuffer)]

\* completeCommand (interactive-session.js:284-302) run by timer `by`
completeCommand(c, by) ==
  IF c.commandCompleted THEN c
  ELSE IF EmitThrows("executed") THEN
    \* emit('executed') throws (line 300): resolve(result) is not reached
    [c EXCEPT !.commandCompleted = TRUE,
              !.idleTimer = NoTimer,
              !.listening = FALSE,
              !.executedEvents = @ + 1,
              !.completedBy = by,
              !.doneAt = Len(outputBuffer)]
  ELSE [c EXCEPT !.commandCompleted = TRUE,
                 !.idleTimer = NoTimer,
                 !.listening = FALSE,
                 !.duration = now - c.startTime,
                 !.executedEvents = @ + 1,
                 !.resolves = @ + 1,
                 !.outcome = "resolved",
                 !.completedBy = by,
                 !.doneAt = Len(outputBuffer)]

\* the idle timer of call i fires (interactive-session.js:277-281)
IdleFires(i) ==
  /\ calls[i].idleTimer # NoTimer
  /\ now >= calls[i].idleTimer
  /\ calls' = [calls EXCEPT ![i] =
       LET c == [calls[i] EXCEPT !.idleTimer = NoTimer]
       IN IF ~c.commandCompleted THEN completeCommand(c, "idle") ELSE c]
  /\ UNCHANGED <<regVars, lastAnalysis, observers, connected, commandHistory, outputBuffer,
                 blockDangerousCommands, sshProcess, stdin, conn, closing, now>>

\* a ceiling timer that completes whichever command is in flight when it
\* fires, as if the completion state were shared by the calls
CeilingFiresShared(i) ==
  /\ calls[i].maxTimeout # NoTimer
  /\ now >= calls[i].maxTimeout
  /\ calls' = [j \in 1..Len(calls) |->
       LET c == IF j = i THEN [calls[j] EXCEPT !.maxTimeout = NoTimer] ELSE calls[j]
       IN IF InFlight(c) /\ ~c.commandCompleted THEN completeCommand(c, "ceiling") ELSE c]
  /\ UNCHANGED <<regVars, lastAnalysis, observers, connected, commandHistory, outputBuffer,
                 blockDangerousCommands, sshProcess, stdin, conn, closing, now>>

\* the ceiling timer of call i fires (interactive-session.js:310-314)
CeilingFires(i) ==
  /\ calls[i].maxTimeout # NoTimer
  /\ now >= calls[i].maxTimeout
  /\ calls' = [calls EXCEPT ![i] =
       LET c == [calls[i] EXCEPT !.maxTimeout = NoTimer]
       IN IF ~c.commandCompleted THEN completeCommand(c, "ceiling") ELSE c]
  /\ UNCHANGED <<regVars, lastAnalysis, observers, connected, commandHistory, outputBuffer,
                 blockDangerousCommands, sshProcess, stdin, conn, closing, now>>

\* close (interactive-session.js:345-362)
Close ==
  /\ closing.state = "none"
  /\ IF sshProcess = "null"
       THEN /\ closing' = [closing EXCEPT !.state = "resolved"]
            /\ UNCHANGED stdin
       ELSE /\ closing' = [state |-> "pending", timer |-> now + CloseGrace,
                           listening |-> TRUE]
            /\ stdin' = IF sshProcess = "running"
                          THEN Append(stdin, Line("exit")) ELSE stdin
  /\ UNCHANGED <<regVars, lastAnalysis, observers, connected, commandHistory, outputBuffer,
                 blockDangerousCommands, sshProcess, conn, calls, now>>

\* the grace timer of close fires: kill('SIGTERM'), resolve
\* (interactive-session.js:350-353)
GraceFires ==
  /\ closing.timer # NoTimer
  /\ now >= closing.timer
  /\ closing' = [closing EXCEPT !.timer = NoTimer, !.state = "resolved"]
  /\ UNCHANGED <<regVars, lastAnalysis, observers, connected, commandHistory, outputBuffer,
                 blockDangerousCommands, sshProcess, stdin, conn, calls, now>>

\* the caller flips the policy toggle (part_007:30-32, session-start.ts:40-41)
SetBlockDangerous(b) ==
  /\ b # blockDangerousCommands
  /\ blockDangerousCommands' = b
  /\ UNCHANGED <<regVars, lastAnalysis, observers, connected, commandHistory, outputBuffer,
                 sshProcess, stdin, conn, closing, calls, now>>

\* time passes by Step, or up to the next timer if that is due sooner
TickFine ==
  /\ \A d \in Pending : now < d
  /\ now' = IF Pending # {} /\ SetMin(Pending) < now + Step
              THEN SetMin(Pending) ELSE now + Step
  /\ UNCHANGED <<regVars, lastAnalysis, observers, connected, commandHistory, outputBuffer,
                 blockDangerousCommands, sshProcess, stdin, conn, closing, calls>>

\* time passes until the next timer is due
TickCoarse ==
  /\ \A d \in Pending : now < d
  /\ Pending # {}
  /\ now' = SetMin(Pending)
  /\ UNCHANGED <<regVars, lastAnalysis, observers, connected, commandHistory, outputBuffer,
                 blockDangerousCommands, sshProcess, stdin, conn, closing, calls>>

\* the registry holds reg when the session is constructed
SetRegInit(reg) ==
  /\ dangerousPatterns = reg.dangerous
  /\ suspiciousPatterns = reg.suspicious
  /\ whitelistedPatterns = reg.whitelisted
  /\ settings = reg.settings

\* the singleton registry was loaded at import (part_001:356-357); the
\* session is as constructed
Init ==
  /\ configFile \in SessionFiles
  /\ LET reg == load(configFile, Reg(<< >>, << >>, << >>, EmptySettings)) IN
       /\ dangerousPatterns = reg.dangerous
       /\ suspiciousPatterns = reg.suspicious
       /\ whitelistedPatterns = reg.whitelisted
       /\ settings = reg.settings
  /\ added = 0
  /\ lastAnalysis = NoAnalysis
  /\ SessInit

\* ---- SpecGate: the safety gate ----------------------------------------------
\* Commands, bypass and the policy toggle vary over a connected session; time
\* passes from one timer to the next.

ExecInputs ==
  { <<"rm -rf /", FALSE, 0>>, <<"rm -rf /", TRUE, 0>>,
    <<"sudo rm -rf /tmp/test", FALSE, 0>>, <<"ls -la", FALSE, 1000>> }

NextGate ==
  \/ Connect
  \/ Len(outputBuffer) < MaxChunks /\ \E m \in {"plain", "prompt"} : StdoutData(m)
  \/ Len(calls) < MaxCalls /\ \E x \in ExecInputs : ExecuteCommand(x[1], x[2], x[3])
  \/ \E i \in 1..Len(calls) : IdleFires(i)
  \/ \E i \in 1..Len(calls) : CeilingFires(i)
  \/ \E b \in BOOLEAN : SetBlockDangerous(b)
  \/ TickCoarse

SpecGate == Init /\ [][NextGate]_vars

\* ---- SpecBypass: a dangerous command with and without bypassSafety --------
\* The event loop runs every timer that is due and time does not stop.

BypassInputs ==
  { <<"rm -rf /", TRUE, 0>>, <<"rm -rf /", TRUE, 1000>>, <<"rm -rf /", FALSE, 0>> }

NextBypass ==
  \/ Connect
  \/ Len(outputBuffer) < MaxChunks /\ \E m \in {"plain", "prompt"} : StdoutData(m)
  \/ Len(calls) < MaxBypassCalls /\ \E x \in BypassInputs : ExecuteCommand(x[1], x[2], x[3])
  \/ \E i \in 1..Len(calls) : IdleFires(i)
  \/ \E i \in 1..Len(calls) : CeilingFires(i)
  \/ \E b \in BOOLEAN : SetBlockDangerous(b)
  \/ TickCoarse

TimersFair ==
  /\ WF_vars(TickCoarse)
  /\ \A i \in 1..MaxBypassCalls : WF_vars(IF i <= Len(calls) THEN IdleFires(i) ELSE FALSE)
  /\ \A i \in 1..MaxBypassCalls : WF_vars(IF i <= Len(calls) THEN CeilingFires(i) ELSE FALSE)

SpecBypass == Init /\ [][NextBypass]_vars /\ TimersFair

\* ---- SpecLife: the life cycle of the connection ---------------------------
\* connect, its timeout, spawn failure, termination of the transport, close.

NextLife ==
  \/ Connect
  \/ Len(outputBuffer) < MaxChunks /\ \E m \in {"plain", "prompt"} : StdoutData(m)
  \/ Len(outputBuffer) < MaxChunks /\ \E m \in {"plain", "login"} : StderrData(m)
  \/ ConnectTimerFires
  \/ ProcessError
  \/ ProcessClose
  \/ Len(calls) < MaxCalls /\ ExecuteCommand("ls -la", FALSE, 0)
  \/ \E i \in 1..Len(calls) : IdleFires(i)
  \/ \E i \in 1..Len(calls) : CeilingFires(i)
  \/ Close
  \/ GraceFires
  \/ TickCoarse

SpecLife == Init /\ [][NextLife]_vars

\* ---- SpecDetector: the completion detector ---------------------------------
\* A safe command; chunks arrive at a granularity of Step during the first
\* MaxFineTime ms of a command, afterwards when a timer is due.

FineTime ==
  \E i \in 1..Len(calls) : InFlight(calls[i]) /\ now - calls[i].startTime < MaxFineTime

NextDetector ==
  \/ Connect
  \/ Len(outputBuffer) < MaxDetectorChunks /\ \E m \in {"plain", "prompt"} : StdoutData(m)
  \/ Len(calls) < MaxDetectorCalls /\ \E t \in Timeouts : ExecuteCommand("ls -la", FALSE, t)
  \/ \E i \in 1..Len(calls) : IdleFires(i)
  \/ \E i \in 1..Len(calls) : CeilingFires(i)
  \/ FineTime /\ TickFine
  \/ ~FineTime /\ calls # << >> /\ TickCoarse

SpecDetector == Init /\ [][NextDetector]_vars

\* ---- SpecObservers: the caller's listeners of the 'output' event ---------

NextObservers ==
  \/ Connect
  \/ ConnectTimerFires
  \/ Len(observers) < MaxObservers /\ \E t \in BOOLEAN : Subscribe(t)
  \/ Len(outputBuffer) < MaxChunks /\ \E m \in {"plain", "prompt"} : StdoutData(m)
  \/ Len(calls) < MaxObserverCalls /\ ExecuteCommand("ls -la", FALSE, 0)
  \/ \E i \in 1..Len(calls) : IdleFires(i)
  \/ \E i \in 1..Len(calls) : CeilingFires(i)
  \/ TickCoarse

SpecObservers == Init /\ [][NextObservers]_vars

\* ---- SpecSettle: commands in flight while the session is closed -----------
\* close and the termination of the transport may happen at any moment; the
\* event loop runs every timer that is due and time does not stop.

MaxSettleCalls == 1

NextSettle ==
  \/ Connect
  \/ ConnectTimerFires
  \/ Len(outputBuffer) < MaxChunks /\ \E m \in {"plain", "prompt"} : StdoutData(m)
  \/ ProcessClose
  \/ Len(calls) < MaxSettleCalls /\ \E t \in Timeouts : ExecuteCommand("ls -la", FALSE, t)
  \/ \E i \in 1..Len(calls) : IdleFires(i)
  \/ \E i \in 1..Len(calls) : CeilingFires(i)
  \/ Close
  \/ GraceFires
  \/ TickCoarse

SettleFair ==
  /\ WF_vars(TickCoarse)
  /\ WF_vars(ConnectTimerFires)
  /\ WF_vars(GraceFires)
  /\ \A i \in 1..MaxSettleCalls : WF_vars(IF i <= Len(calls) THEN IdleFires(i) ELSE FALSE)
  /\ \A i \in 1..MaxSettleCalls : WF_vars(IF i <= Len(calls) THEN CeilingFires(i) ELSE FALSE)

SpecSettle == Init /\ [][NextSettle]_vars /\ SettleFair

\* ---- SpecBuffer: a long-lived session -------------------------------------
\* The transport keeps delivering chunks; nothing else happens.

\* the default limit of getOutput (interactive-session.js:338)
GetOutputLimit == 100

\* getOutput (interactive-session.js:338-340): a view of the latest entries
getOutput(limit) == slice(outputBuffer, 0 - limit)

MaxBufferChunks == 101

NextBuffer ==
  \/ Connect
  \/ ConnectTimerFires
  \/ Len(outputBuffer) < MaxBufferChunks /\ \E m \in {"plain", "prompt"} : StdoutData(m)
  \/ Len(outputBuffer) < MaxBufferChunks /\ StderrData("login")
  \/ TickCoarse

SpecBuffer == Init /\ [][NextBuffer]_vars

\* ---- SpecInput: every operation that writes to the transport --------------
\* executeCommand, sendInput and close on a session whose policy toggle
\* stays on.

MaxStdin == 2
MaxInputCalls == 1

\* sendInput (interactive-session.js:321-326): the data is written as given;
\* on a session that is not connected the call throws and changes nothing
SendInput(data) ==
  /\ connected
  /\ stdin' = Append(stdin, data)
  /\ UNCHANGED <<regVars, lastAnalysis, observers, connected, commandHistory, outputBuffer,
                 blockDangerousCommands, sshProcess, conn, closing, calls, now>>

\* the raw data sendInput is called with
InputData == {Line("rm -rf /")}

NextInput ==
  \/ Connect
  \/ Len(outputBuffer) < MaxChunks /\ \E m \in {"plain", "prompt"} : StdoutData(m)
  \/ Len(calls) < MaxInputCalls /\ \E x \in ExecInputs : ExecuteCommand(x[1], x[2], x[3])
  \/ Len(stdin) < MaxStdin /\ \E d \in InputData : SendInput(d)
  \/ \E i \in 1..Len(calls) : IdleFires(i)
  \/ \E i \in 1..Len(calls) : CeilingFires(i)
  \/ Close
  \/ GraceFires
  \/ TickCoarse

SpecInput == Init /\ [][NextInput]_vars

\* ---- SpecListeners: listeners of the events of executeCommand ------------
\* The caller registers listeners that throw.

MaxListeners == 1
MaxListenerCalls == 1

ListenerInputs ==
  { <<"rm -rf /", FALSE>>, <<"sudo rm -rf /tmp/test", FALSE>>, <<"ls -la", FALSE>> }

NextListeners ==
  \/ Connect
  \/ Len(outputBuffer) < MaxChunks /\ \E m \in {"plain", "prompt"} : StdoutData(m)
  \/ Len(observers) < MaxListeners
       /\ \E e \in {"blocked", "warning", "executed"} : SubscribeThrowing(e)
  \/ Len(calls) < MaxListenerCalls
       /\ \E x \in ListenerInputs : ExecuteCommand(x[1], x[2], 0)
  \/ \E i \in 1..Len(calls) : IdleFires(i)
  \/ \E i \in 1..Len(calls) : CeilingFires(i)
  \/ TickCoarse

SpecListeners == Init /\ [][NextListeners]_vars

\* ---- SpecSequential: commands run one after the other ----------------------
\* The caller awaits each executeCommand before it makes the next call
\* (session-start.ts:145); the timers of the earlier calls may still be
\* pending.

MaxSeqCalls == 2
MaxSeqChunks == 3

NextSequential ==
  \/ Connect
  \/ Len(outputBuffer) < MaxSeqChunks /\ \E m \in {"plain", "prompt"} : StdoutData(m)
  \/ /\ Len(calls) < MaxSeqCalls
     /\ \A i \in 1..Len(calls) : ~InFlight(calls[i])
     /\ \E t \in Timeouts : ExecuteCommand("ls -la", FALSE, t)
  \/ \E i \in 1..Len(calls) : IdleFires(i)
  \/ \E i \in 1..Len(calls) : CeilingFires(i)
  \/ TickCoarse

SpecSequential == Init /\ [][NextSequential]_vars

\* ---- SpecEvents: the events of the safety gate ----------------------------
\* The registry was loaded from a configuration whose rules make one command
\* both dangerous and suspicious; the policy toggle stays on.

MaxEventCalls == 2

EventInputs ==
  { <<"rm -rf /", FALSE>>, <<"rm -rf /", TRUE>>,
    <<"sudo rm -rf /tmp/test", FALSE>>, <<"ls -la", FALSE>> }

InitEvents ==
  /\ configFile = DocWhitelist
  /\ SetRegInit(load(configFile, Reg(<< >>, << >>, << >>, EmptySettings)))
  /\ added = 0
  /\ lastAnalysis = NoAnalysis
  /\ SessInit

NextEvents ==
  \/ Connect
  \/ Len(outputBuffer) < MaxChunks /\ \E m \in {"plain", "prompt"} : StdoutData(m)
  \/ Len(calls) < MaxEventCalls /\ \E x \in EventInputs : ExecuteCommand(x[1], x[2], 0)
  \/ \E i \in 1..Len(calls) : IdleFires(i)
  \/ \E i \in 1..Len(calls) : CeilingFires(i)
  \/ TickCoarse

SpecEvents == InitEvents /\ [][NextEvents]_vars

----------------------------------------------------------------------------
(* Properties                                                              *)

\* some pattern of the compiled collection matches the command
MatchesSome(patterns, command) ==
  \E k \in 1..Len(patterns) : RegexTest(patterns[k].regex, command)

Analysed == lastAnalysis.command # "none"

\* the 'output' chunks delivered while the listener of call c was attached
WindowOutput(c) ==
  LET upto == IF c.doneAt = -1 THEN Len(outputBuffer) ELSE c.doneAt
      win  == SelectSeq(SubSeq(outputBuffer, c.armedAt + 1, upto),
                        LAMBDA r : r.type = "stdout")
  IN [k \in 1..Len(win) |-> win[k].data]

Completed(c) == c.outcome = "resolved"

\* C1: executeCommand on a command whose verdict is dangerous, with the
\* blockDangerousCommands policy on and bypassSafety not set, writes nothing
\* to the transport input, whatever the state of the session: no step that
\* changes the transport input is such a call.
C1_BlockedNeverWrites ==
  [][stdin' # stdin =>
       \A x \in ExecInputs :
         ~( /\ blockDangerousCommands
            /\ ~x[2]
            /\ analyzeCommand(RegNow, x[1]).dangerous
            /\ ExecuteCommand(x[1], x[2], x[3]) )]_vars

\* a dangerous command was refused on a session another command was written to
C1_Witness ==
  \E i, j \in 1..Len(calls) :
    /\ calls[i].outcome = "blocked" /\ ~calls[i].written
    /\ calls[j].written
    /\ Len(stdin) = 1

\* C2: a command matching a whitelist pattern, with allow_whitelist_override
\* enabled, is classified whitelisted, not dangerous and safe, even when it
\* matches dangerous patterns too.
C2_WhitelistWins ==
  ( /\ Analysed
    /\ Truthy(settings.allow_whitelist_override)
    /\ MatchesSome(whitelistedPatterns, lastAnalysis.command) )
  => ( /\ ~lastAnalysis.threw
       /\ lastAnalysis.whitelisted
       /\ ~lastAnalysis.dangerous
       /\ lastAnalysis.safe )

\* a whitelisted command that a dangerous pattern matches was analysed
C2_Witness ==
  /\ Analysed
  /\ Truthy(settings.allow_whitelist_override)
  /\ MatchesSome(whitelistedPatterns, lastAnalysis.command)
  /\ MatchesSome(dangerousPatterns, lastAnalysis.command)
  /\ lastAnalysis.safe

\* C3: a command matching at least one dangerous pattern and no whitelist
\* pattern is classified dangerous, not safe, with the fixed blockedReason.
C3_DangerousBlocked ==
  ( /\ Analysed
    /\ MatchesSome(dangerousPatterns, lastAnalysis.command)
    /\ ~MatchesSome(whitelistedPatterns, lastAnalysis.command) )
  => ( /\ ~lastAnalysis.threw
       /\ lastAnalysis.dangerous
       /\ ~lastAnalysis.safe
       /\ lastAnalysis.blockedReason # NullReason
       /\ lastAnalysis.blockedReason = "Potentially destructive command detected" )

\* a command that exactly one dangerous pattern matches was analysed, in a
\* registry that holds whitelist patterns
C3_Witness ==
  /\ Analysed
  /\ Len(Matching(dangerousPatterns, lastAnalysis.command)) = 1
  /\ whitelistedPatterns # << >>
  /\ ~MatchesSome(whitelistedPatterns, lastAnalysis.command)
  /\ lastAnalysis.dangerous

\* C4: a command whose chunks arrive with gaps below the idle threshold is
\* not completed by the idle timer before the last chunk plus the idle
\* threshold, is completed exactly then unless the ceiling came first, and
\* its output holds all the chunks; it never stays in flight beyond that.
C4_IdleCompletion ==
  \A i \in 1..Len(calls) :
    LET c == calls[i] IN
    /\ (Completed(c) /\ c.completedBy = "idle") =>
         /\ c.lastChunkAt # -1
         /\ c.startTime + c.duration = c.lastChunkAt + IdleThreshold
         /\ c.output = WindowOutput(c)
         /\ c.output # << >>
    /\ (Completed(c) /\ c.completedBy = "ceiling" /\ c.lastChunkAt # -1) =>
         c.startTime + c.duration <= c.lastChunkAt + IdleThreshold
    /\ (InFlight(c) /\ c.lastChunkAt # -1) =>
         /\ now <= c.lastChunkAt + IdleThreshold
         /\ c.idleTimer = c.lastChunkAt + IdleThreshold

\* three chunks, the last one 200 ms after the command was written, and the
\* command completed 700 ms after it was written
C4_Witness ==
  \E i \in 1..Len(calls) :
    /\ Completed(calls[i])
    /\ calls[i].completedBy = "idle"
    /\ Len(calls[i].output) = 3
    /\ calls[i].lastChunkAt - calls[i].startTime = 2 * Step
    /\ calls[i].duration = 2 * Step + IdleThreshold

\* C5: a command whose output never pauses for the idle threshold completes
\* exactly at the ceiling (options.timeout, 30000 ms by default), normally,
\* with the chunks that arrived until then.
C5_CeilingCompletion ==
  \A i \in 1..Len(calls) :
    LET c == calls[i]
        ceiling == IF c.timeout = 0 THEN 30000 ELSE c.timeout
    IN
    /\ (Completed(c) /\ c.completedBy = "ceiling") =>
         /\ c.duration = ceiling
         /\ c.resolves = 1
         /\ c.output = WindowOutput(c)
    /\ InFlight(c) => now <= c.startTime + ceiling
    /\ (Completed(c) /\ c.completedBy = "idle") => c.duration <= ceiling

\* the ceiling completed a command while its idle timer was still running
C5_Witness ==
  \E i \in 1..Len(calls) :
    /\ Completed(calls[i])
    /\ calls[i].completedBy = "ceiling"
    /\ calls[i].output # << >>
    /\ calls[i].lastChunkAt + IdleThreshold > calls[i].startTime + calls[i].duration

\* C6: a command that produces no output completes exactly one idle
\* threshold after it was written.
C6_SilentCompletesAfterIdle ==
  \A i \in 1..Len(calls) :
    LET c == calls[i] IN
    /\ (InFlight(c) /\ c.output = << >>) => now <= c.startTime + IdleThreshold
    /\ (Completed(c) /\ c.output = << >>) => c.duration = IdleThreshold

\* C7: an allowed call completes at most once: one 'executed' event, one
\* resolve, whatever the order of the idle timer, the ceiling timer and the
\* chunks; chunks that arrive after the completion are not added to the output.
C7_SingleCompletion ==
  \A i \in 1..Len(calls) :
    LET c == calls[i] IN
    /\ c.executedEvents <= 1
    /\ c.resolves <= 1
    /\ Completed(c) =>
         /\ c.executedEvents = 1 /\ c.resolves = 1
         /\ c.output = WindowOutput(c)
         /\ ~c.listening
    /\ InFlight(c) => c.executedEvents = 0 /\ c.resolves = 0

\* a command completed by its idle timer, whose ceiling timer fired later and
\* after whose completion a chunk arrived
C7_Witness ==
  \E i \in 1..Len(calls) :
    /\ Completed(calls[i])
    /\ calls[i].completedBy = "idle"
    /\ calls[i].maxTimeout = NoTimer
    /\ Len(outputBuffer) > calls[i].doneAt
    /\ outputBuffer[Len(outputBuffer)].type = "stdout"

\* C8: the history holds one record with executed = FALSE per refused call.
C8_RefusedRecorded ==
  Cardinality({k \in 1..Len(commandHistory) : ~commandHistory[k].executed})
    = Cardinality({i \in 1..Len(calls) : calls[i].outcome = "blocked"})

\* C9: executeCommand with bypassSafety on a connected session and a
\* dangerous command is not refused, writes the command and a line
\* terminator to the transport input, and eventually resolves with a result,
\* whatever the policy toggle.
C9_BypassExecutes ==
  \A i \in 1..MaxBypassCalls :
    /\ [](IF i <= Len(calls)
            THEN ( /\ calls[i].bypassSafety
                   /\ calls[i].analysis.dangerous
                   /\ calls[i].outcome # "notConnected" )
                 => ( /\ calls[i].outcome \in {"pending", "resolved"}
                      /\ calls[i].written
                      /\ \E k \in 1..Len(stdin) : stdin[k] = <<calls[i].command, "\n">> )
            ELSE TRUE)
    /\ ( (IF i <= Len(calls)
            THEN calls[i].bypassSafety /\ calls[i].outcome # "notConnected"
            ELSE FALSE)
         ~> (IF i <= Len(calls)
               THEN calls[i].outcome = "resolved" /\ calls[i].resolves = 1
               ELSE FALSE) )

\* a dangerous command completed under bypassSafety while the policy is on
C9_Witness ==
  \E i \in 1..Len(calls) :
    /\ calls[i].bypassSafety
    /\ calls[i].analysis.dangerous
    /\ calls[i].outcome = "resolved"
    /\ blockDangerousCommands

\* C10: executeCommand on a session that is not connected fails with the
\* not-connected error: nothing is written, and the history, the timers and
\* the listeners are as before.
C10_NotConnectedFails ==
  [][( ~connected /\ ExecuteCommand("ls -la", FALSE, 0) ) =>
       ( /\ stdin' = stdin
         /\ commandHistory' = commandHistory
         /\ conn' = conn
         /\ closing' = closing
         /\ Len(calls') = Len(calls) + 1
         /\ \A j \in 1..Len(calls) : calls'[j] = calls[j]
         /\ LET c == calls'[Len(calls')] IN
              /\ c.outcome = "notConnected"
              /\ ~c.listening
              /\ c.idleTimer = NoTimer
              /\ c.maxTimeout = NoTimer )]_vars

\* a call was refused as not connected after the session had run a command,
\* close() was called and the transport terminated
C10_Witness ==
  \E i \in 1..Len(calls) :
    /\ calls[i].outcome = "notConnected"
    /\ commandHistory # << >>
    /\ closing.state = "resolved"
    /\ sshProcess = "exited"

\* the commands of the calls that passed the gate, in call order
AllowedCommands ==
  LET sel == SelectSeq(calls, LAMBDA c : c.outcome \in {"pending", "resolved"})
  IN [k \in 1..Len(sel) |-> sel[k].command]

\* C11: the history holds the commands in the order in which they were
\* submitted, and no step removes or reorders a record: the history before
\* a step is a prefix of the history after it.
C11_HistoryInOrder ==
  /\ []( /\ [k \in 1..Len(commandHistory) |-> commandHistory[k].command] = AllowedCommands
         /\ \A k \in 1..(Len(commandHistory) - 1) :
              commandHistory[k].timestamp <= commandHistory[k + 1].timestamp )
  /\ [][ /\ Len(commandHistory') >= Len(commandHistory)
         /\ SubSeq(commandHistory', 1, Len(commandHistory)) = commandHistory ]_vars

\* two different commands were executed one after the other
C11_Witness ==
  /\ Len(commandHistory) = 2
  /\ commandHistory[1].command # commandHistory[2].command
  /\ commandHistory[1].timestamp < commandHistory[2].timestamp

\* C12: getHistory(limit) returns the latest min(limit, length) records in
\* execution order, for every limit from 0 on.
C12_HistoryLimit ==
  \A limit \in Limits :
    LET len == Len(commandHistory)
        n   == IF limit < len THEN limit ELSE len
    IN /\ Len(getHistory(limit)) = n
       /\ getHistory(limit) = SubSeq(commandHistory, len - n + 1, len)

\* the warning lines analyzeCommand formats for the matched patterns
Formatted(matches) ==
  [k \in 1..Len(matches) |-> <<ToUpperCase(matches[k].severity), matches[k].description>>]

C14_WhitelistNoWarnings ==
  ( /\ Analysed
    /\ Truthy(settings.allow_whitelist_override)
    /\ MatchesSome(whitelistedPatterns, lastAnalysis.command) )
  => ( /\ lastAnalysis.warnings = << >>
       /\ ~lastAnalysis.suspicious )

\* C15: a command that no dangerous, suspicious or whitelist pattern matches
\* is classified safe, not dangerous, not suspicious, without warnings and
\* without a blockedReason; so is every command when the registry is empty.
C15_NoMatchSafe ==
  ( /\ Analysed
    /\ ~MatchesSome(dangerousPatterns, lastAnalysis.command)
    /\ ~MatchesSome(suspiciousPatterns, lastAnalysis.command)
    /\ ~MatchesSome(whitelistedPatterns, lastAnalysis.command) )
  => ( /\ ~lastAnalysis.threw
       /\ lastAnalysis.safe
       /\ ~lastAnalysis.dangerous
       /\ ~lastAnalysis.suspicious
       /\ ~lastAnalysis.whitelisted
       /\ lastAnalysis.warnings = << >>
       /\ lastAnalysis.blockedReason = NullReason )

\* "rm -rf /" was analysed against a registry without any pattern
C15_Witness ==
  /\ Analysed
  /\ lastAnalysis.command = "rm -rf /"
  /\ dangerousPatterns = << >>
  /\ suspiciousPatterns = << >>
  /\ whitelistedPatterns = << >>
  /\ lastAnalysis.safe

\* C16: analyzeCommand returns a verdict, it never raises, whatever document
\* the registry was loaded from.
C16_NeverThrows == Analysed => ~lastAnalysis.threw

\* C20: load with a configuration file that is missing, unreadable or
\* unparseable leaves exactly the built-in defaults in the registry: 7
\* dangerous, 4 suspicious and no whitelisted patterns, the default settings.
C20_LoadFallsBack ==
  [][( configFile.kind # "doc" /\ Load ) =>
       ( /\ dangerousPatterns' = DefaultDangerous
         /\ Len(dangerousPatterns') = 7
         /\ suspiciousPatterns' = DefaultSuspicious
         /\ Len(suspiciousPatterns') = 4
         /\ whitelistedPatterns' = << >>
         /\ settings' = DefaultSettings
         /\ settings'.allow_whitelist_override = "true" )]_vars

\* the registry holds the defaults while the file is unparseable, after
\* addPattern calls had been made
C20_Witness ==
  /\ configFile.kind = "corrupt"
  /\ added > 0
  /\ dangerousPatterns = DefaultDangerous
  /\ suspiciousPatterns = DefaultSuspicious
  /\ whitelistedPatterns = << >>
  /\ settings = DefaultSettings

\* C17: once close() has returned, connected is FALSE, whether the transport
\* closed within the grace period or was terminated when it ran out.
C17_ClosedMeansDisconnected ==
  [][( closing.state # "resolved" /\ closing'.state = "resolved" ) => ~connected']_vars

\* C18: the error of a call refused by the policy has another kind than the
\* error of a call that failed for any other reason, and it carries the
\* verdict.
C18_BlockedErrorKind ==
  \A i \in 1..Len(calls) :
    calls[i].outcome = "blocked" =>
      /\ \A j \in 1..Len(calls) :
           calls[j].outcome \in {"notConnected", "threw"} =>
             Thrown(calls[i]).name # Thrown(calls[j]).name
      /\ "analysis" \in Thrown(calls[i]).properties

\* the 'output' events emitted after the first n records of the buffer
EmittedSince(n) ==
  LET win == SelectSeq(SubSeq(outputBuffer, n + 1, Len(outputBuffer)),
                       LAMBDA r : r.type = "stdout")
  IN [k \in 1..Len(win) |-> win[k].data]

\* C19: a listener that throws does not keep an event from the other
\* listeners: every observer has received every 'output' event emitted since
\* it was registered, in emission order, and so has the outputHandler of
\* every call in flight.
C19_ObserversIsolated ==
  /\ \A k \in 1..Len(observers) :
       observers[k].received = EmittedSince(observers[k].since)
  /\ \A i \in 1..Len(calls) :
       InFlight(calls[i]) => calls[i].output = EmittedSince(calls[i].armedAt)

\* the collection of the registry a pattern type names
CollectionOf(reg, type) ==
  CASE type = "dangerous"   -> reg.dangerous
    [] type = "suspicious"  -> reg.suspicious
    [] type = "whitelisted" -> reg.whitelisted

\* C21: addPattern with an unknown type or an expression that does not
\* compile returns false and leaves the three collections and the settings
\* as they are; a successful addPattern returns true, appends one pattern to
\* the end of the collection it names and changes nothing else.
C21_AddPatternFrame ==
  [][\A t \in PatternTypes \cup {"invalid"}, pc \in AddConfigs :
       (added' # added /\ AddPattern(t, pc)) =>
         LET before == RegNow
             after  == Reg(dangerousPatterns', suspiciousPatterns',
                           whitelistedPatterns', settings')
         IN IF t \notin PatternTypes \/ ~Compiles(pc.pattern)
              THEN /\ ~addPattern(before, t, pc).ok
                   /\ after = before
              ELSE /\ addPattern(before, t, pc).ok
                   /\ Len(CollectionOf(after, t)) = Len(CollectionOf(before, t)) + 1
                   /\ SubSeq(CollectionOf(after, t), 1, Len(CollectionOf(before, t)))
                        = CollectionOf(before, t)
                   /\ LET p == CollectionOf(after, t)[Len(CollectionOf(after, t))]
                      IN p.name = pc.name /\ p.regex.source = pc.pattern
                   /\ \A u \in PatternTypes \ {t} :
                        CollectionOf(after, u) = CollectionOf(before, u)
                   /\ after.settings = before.settings]_vars

\* of two addPattern calls on a fresh loader one failed and one added the
\* whitelist pattern
C21_Witness ==
  /\ added = 2
  /\ dangerousPatterns = << >>
  /\ suspiciousPatterns = << >>
  /\ Len(whitelistedPatterns) = 1
  /\ whitelistedPatterns[1].name = "home_ok"

\* C22: at most one command is in flight at any time: at most one
\* outputHandler is attached to the 'output' event, and no chunk is in the
\* output of two commands.
C22_OneInFlight ==
  /\ Cardinality({i \in 1..Len(calls) : calls[i].listening}) <= 1
  /\ \A i, j \in 1..Len(calls) :
       i # j => \A a \in 1..Len(calls[i].output), b \in 1..Len(calls[j].output) :
                  calls[i].output[a] # calls[j].output[b]

\* C23: every chunk the transport delivers, on stdout or on stderr, is
\* published as an 'output' event: the command in flight observes every
\* record appended to the output buffer while its listener is attached.
C23_EveryChunkPublished ==
  \A i \in 1..Len(calls) :
    LET c == calls[i]
        upto == IF c.doneAt = -1 THEN Len(outputBuffer) ELSE c.doneAt
    IN c.armedAt # -1 =>
         c.output = [k \in 1..(upto - c.armedAt) |-> outputBuffer[c.armedAt + k].data]

\* C24: the built-in default patterns match case-insensitively: when the
\* registry holds the defaults, every pattern gives the same answer for a
\* command and for its lower-case variant.
C24_DefaultsIgnoreCase ==
  RegNow = loadDefaults =>
    \A c \in Commands :
      /\ \A k \in 1..Len(dangerousPatterns) :
           RegexTest(dangerousPatterns[k].regex, c)
             = RegexTest(dangerousPatterns[k].regex, Lower(c))
      /\ \A k \in 1..Len(suspiciousPatterns) :
           RegexTest(suspiciousPatterns[k].regex, c)
             = RegexTest(suspiciousPatterns[k].regex, Lower(c))

\* C25: a completed command has no timer pending and no listener attached:
\* completion cancels the idle timer and the ceiling timer and detaches the
\* chunk listener.
C25_CompletionCancelsTimers ==
  \A i \in 1..Len(calls) :
    Completed(calls[i]) =>
      /\ calls[i].idleTimer = NoTimer
      /\ calls[i].maxTimeout = NoTimer
      /\ ~calls[i].listening

\* C26: the output of a command is the sequence of the 'output' chunks that
\* were emitted while its listener was attached, in the order of arrival:
\* none is dropped, duplicated or moved, and no chunk from before the
\* command was armed or from after its completion is part of it.
C26_OutputIsWindow ==
  \A i \in 1..Len(calls) :
    calls[i].armedAt # -1 => calls[i].output = WindowOutput(calls[i])

\* a chunk before the command, two chunks while it is in flight, completion,
\* and one more chunk afterwards
C26_Witness ==
  \E i \in 1..Len(calls) :
    /\ Completed(calls[i])
    /\ calls[i].armedAt = 1
    /\ calls[i].output = <<2, 3>>
    /\ Len(outputBuffer) = 4

\* position of a statement among the effects of a call, 0 when it was not run
IndexOf(seq, x) ==
  IF \E k \in 1..Len(seq) : seq[k] = x
    THEN CHOOSE k \in 1..Len(seq) : seq[k] = x /\ \A j \in 1..(k - 1) : seq[j] # x
    ELSE 0

Count(seq, x) == Cardinality({k \in 1..Len(seq) : seq[k] = x})

\* C27: a command that passes the gate with a suspicious verdict causes
\* exactly one 'warning' event, emitted before the command is written to the
\* transport, and the command is written; a refused command causes a
\* 'blocked' event and no 'warning' event.
C27_WarningBeforeWrite ==
  \A i \in 1..Len(calls) :
    LET c == calls[i] IN
    /\ (c.outcome \in {"pending", "resolved"} /\ c.analysis.suspicious) =>
         /\ Count(c.effects, "emit warning") = 1
         /\ Count(c.effects, "stdin.write") = 1
         /\ IndexOf(c.effects, "emit warning") < IndexOf(c.effects, "stdin.write")
         /\ c.written
         /\ \E k \in 1..Len(stdin) : stdin[k] = Line(c.command)
    /\ c.outcome = "blocked" =>
         /\ Count(c.effects, "emit blocked") = 1
         /\ Count(c.effects, "emit warning") = 0
         /\ ~c.written

\* a dangerous and suspicious command was refused, then the same command was
\* executed with bypassSafety and completed
C27_Witness ==
  /\ Len(calls) = 2
  /\ calls[1].outcome = "blocked" /\ calls[1].analysis.suspicious
  /\ calls[2].outcome = "resolved" /\ calls[2].analysis.suspicious
  /\ calls[2].analysis.dangerous

\* the position in commandHistory of the record call i pushed
HistoryIndex(i) ==
  Cardinality({j \in 1..i : calls[j].outcome \in {"pending", "resolved"}})

\* C28: once an executed command has completed, its record in the history
\* holds the result of the command, its output and its duration.
C28_RecordHoldsResult ==
  \A i \in 1..Len(calls) :
    Completed(calls[i]) =>
      LET r == commandHistory[HistoryIndex(i)] IN
      /\ "result" \in DOMAIN r
      /\ r.result.output = calls[i].output
      /\ r.result.duration = calls[i].duration

\* C29: every call that passed the gate settles, whatever happens to the
\* session meanwhile: a call in flight is never past its ceiling, and it is
\* eventually resolved with a duration of at most its ceiling.
C29_EventuallySettles ==
  /\ [](\A i \in 1..Len(calls) :
          InFlight(calls[i]) => now <= calls[i].startTime + Ceiling(calls[i].timeout))
  /\ \A i \in 1..MaxSettleCalls :
       (IF i <= Len(calls) THEN InFlight(calls[i]) ELSE FALSE)
         ~> (IF i <= Len(calls)
               THEN Completed(calls[i]) /\ calls[i].duration <= Ceiling(calls[i].timeout)
               ELSE FALSE)

\* close was called after the command was written, its grace period ran out
\* while the command was in flight, no chunk arrived, and the command has
\* just been resolved by its ceiling timer
C29_Witness ==
  /\ Len(calls) = 1
  /\ Completed(calls[1])
  /\ calls[1].completedBy = "ceiling"
  /\ calls[1].output = << >>
  /\ now = calls[1].startTime + DefaultTimeout
  /\ stdin = <<Line("ls -la"), Line("exit")>>
  /\ closing.state = "resolved"
  /\ sshProcess = "running"

\* C30: the patterns load compiles from a configuration document match the
\* way the case_sensitive setting of that document says: exactly as written
\* when it is set, regardless of case when it is not.
C30_LoadedCaseSetting ==
  [][(configFile.kind = "doc" /\ Load) =>
       LET all == dangerousPatterns' \o suspiciousPatterns' \o whitelistedPatterns'
       IN \A k \in 1..Len(all), c \in Commands :
            RegexTest(all[k].regex, c) =
              (IF Truthy(configFile.settings.case_sensitive)
                 THEN c \in Lang(all[k].regex.source)
                 ELSE Lower(c) \in Lang(all[k].regex.source))]_vars

\* C31: allow_whitelist_override defaults to true: after a load of a document
\* that does not set it to false, the whitelist is consulted, so a command
\* is whitelisted exactly when a whitelist pattern matches it.
C31_WhitelistOverrideDefault ==
  [][(configFile.kind = "doc" /\ Load
        /\ configFile.settings.allow_whitelist_override # "false") =>
       LET after == Reg(dangerousPatterns', suspiciousPatterns',
                        whitelistedPatterns', settings')
       IN \A c \in Commands :
            isWhitelisted(after, c) = MatchesSome(after.whitelisted, c)]_vars

Range(seq) == {seq[k] : k \in 1..Len(seq)}

\* the names of the patterns that were given with enabled false, in a
\* configuration document or to addPattern
DisabledNames ==
  UNION { {e.name : e \in {x \in Range(f.dangerous \o f.customDangerous \o f.suspicious
                                         \o f.whitelisted) : ~x.enabled}} :
          f \in {g \in ConfigFilesAny : g.kind = "doc"} }
    \cup {pc.name : pc \in {x \in AddConfigsAny : ~x.enabled}}

\* C32: a pattern whose enabled flag is false is in no compiled collection
\* and in no verdict, whether it came through load or through addPattern.
C32_DisabledExcluded ==
  /\ \A p \in Range(dangerousPatterns \o suspiciousPatterns \o whitelistedPatterns) :
       p.name \notin DisabledNames
  /\ \A n \in Range(lastAnalysis.matchedPatterns.dangerous
                      \o lastAnalysis.matchedPatterns.suspicious) :
       n \notin DisabledNames

\* two compiled collections have the same names and expression sources in
\* the same order and match the same commands
SamePatterns(a, b) ==
  /\ Len(a) = Len(b)
  /\ \A k \in 1..Len(a) :
       /\ a[k].name = b[k].name
       /\ a[k].regex.source = b[k].regex.source
       /\ \A c \in Commands : RegexTest(a[k].regex, c) = RegexTest(b[k].regex, c)

\* C33: save followed by load is a round trip: the reloaded registry has,
\* per category, the same patterns in the same order, matching the same
\* commands, and the same settings as the registry that was saved.
C33_SaveLoadRoundTrip ==
  [][(configFile = save(RegNow) /\ Load) =>
       /\ SamePatterns(dangerousPatterns, dangerousPatterns')
       /\ SamePatterns(suspiciousPatterns, suspiciousPatterns')
       /\ SamePatterns(whitelistedPatterns, whitelistedPatterns')
       /\ settings' = settings]_vars

\* C34: the output buffer is capped: however many chunks the transport
\* delivers, the buffer never holds more entries than its bound, the number
\* of entries getOutput returns by default.
C34_BufferCapped == Len(outputBuffer) <= GetOutputLimit

\* C35: while blockDangerousCommands is on, every line on the transport
\* whose text is classified dangerous was written by an executeCommand call
\* that was given bypassSafety: no operation of the session writes a
\* dangerous command past the gate.
C35_NothingPastTheGate ==
  blockDangerousCommands =>
    \A k \in 1..Len(stdin) :
      analyzeCommand(RegNow, stdin[k][1]).dangerous =>
        \E i \in 1..Len(calls) :
          /\ calls[i].written
          /\ calls[i].bypassSafety
          /\ Line(calls[i].command) = stdin[k]

\* C36: a listener that throws does not change the outcome of
\* executeCommand: a refused command fails with the blocked error, an allowed
\* one is recorded in the history and written to the transport, and a
\* command whose completion ran has resolved with its result.
C36_ListenersDoNotDecide ==
  \A i \in 1..Len(calls) :
    LET c == calls[i] IN
    /\ (c.analysis.command # "none" /\ Blocks(c.analysis, c.bypassSafety)) =>
         /\ c.outcome = "blocked"
         /\ Thrown(c).message = <<"Command blocked: ", c.analysis.blockedReason>>
    /\ (c.analysis.command # "none" /\ ~Blocks(c.analysis, c.bypassSafety)) =>
         /\ c.written
         /\ \E k \in 1..Len(commandHistory) : commandHistory[k].command = c.command
    /\ c.commandCompleted => (Completed(c) /\ c.resolves = 1)

\* C37: the timers of a command affect only that command: a timer of a
\* completed command that fires changes no other call, and every command is
\* completed by its own idle timer, 500 ms after its last chunk, or by its
\* own ceiling, with the chunks of its own window.
C37_TimersAreLocal ==
  /\ [](\A i \in 1..Len(calls) :
          LET c == calls[i] IN
          Completed(c) =>
            /\ c.output = WindowOutput(c)
            /\ \/ c.completedBy = "idle"
                    /\ c.startTime + c.duration = c.lastChunkAt + IdleThreshold
               \/ c.completedBy = "ceiling" /\ c.duration = Ceiling(c.timeout))
  /\ [][calls' # calls =>
          \A i \in 1..Len(calls) :
            (calls[i].commandCompleted /\ (IdleFires(i) \/ CeilingFires(i))) =>
              \A j \in 1..Len(calls) : j # i => calls'[j] = calls[j]]_vars

\* the first command was completed by its idle timer, the second command is
\* in flight with a chunk received, and the ceiling timer of the first
\* command has just fired
C37_Witness ==
  /\ Len(calls) = 2
  /\ Completed(calls[1])
  /\ calls[1].completedBy = "idle"
  /\ calls[1].maxTimeout = NoTimer
  /\ now = calls[1].startTime + 1000
  /\ InFlight(calls[2])
  /\ calls[2].startTime < now
  /\ Len(calls[2].output) = 1

\* C38: once connect() has failed, by its timeout or by a process error, the
\* session does not become connected as a result of that attempt.
C38_FailedConnectStaysFailed == conn.state = "rejected" => ~connected

\* the names and expression sources of a compiled collection, and of the
\* entries of a section of a document
PairsOf(patterns) == {<<p.name, p.regex.source>> : p \in Range(patterns)}
EntryPairs(entries) == {<<e.name, e.pattern>> : e \in Range(entries)}

\* every collection of the registry holds only patterns of the matching
\* section of document f, and the settings are those of f
FromDocument(f, reg) ==
  /\ f.kind = "doc"
  /\ PairsOf(reg.dangerous) \subseteq EntryPairs(f.dangerous \o f.customDangerous)
  /\ PairsOf(reg.suspicious) \subseteq EntryPairs(f.suspicious)
  /\ PairsOf(reg.whitelisted) \subseteq EntryPairs(f.whitelisted)
  /\ reg.settings = (IF f.hasSettings THEN f.settings ELSE EmptySettings)

\* C39: load is all or nothing: after load the three collections and the
\* settings all come from the document, or they are all the built-in
\* defaults, also for a document that leaves out a section.
C39_LoadAllOrNothing ==
  [][Load =>
       LET after == Reg(dangerousPatterns', suspiciousPatterns',
                        whitelistedPatterns', settings')
       IN after = loadDefaults \/ FromDocument(configFile, after)]_vars

\* the file is a document without its suspicious section, patterns had been
\* added at run time, and the registry holds the defaults
C39_Witness ==
  /\ configFile = DocNoSuspicious
  /\ added = MaxAdds
  /\ dangerousPatterns = DefaultDangerous
  /\ suspiciousPatterns = DefaultSuspicious
  /\ whitelistedPatterns = << >>
  /\ settings.allow_whitelist_override = "true"

====
